---- MODULE Spec2Model ----
(***************************************************************************)
(* Model of the SDK-to-MCP converter: startup (alias map, client registry, *)
(* recursive tool discovery) and the /execute path (tool-name resolution,  *)
(* worker pool with timeout, result serialisation, HTTP status mapping).   *)
(*                                                                         *)
(* Strings that the program builds or parses (tool names, aliases, class   *)
(* paths, member names) are sequences of one-character strings, so that    *)
(* f"{prefix}__{name}", str.replace and str.split are computed, not        *)
(* assumed.                                                                *)
(***************************************************************************)
EXTENDS Integers, Sequences, FiniteSets, TLC

\* ------------------------------------------------------------------ bounds
NumObjects == 2          \* objects on the heap of client handles
MaxRefs == 2             \* attribute slots of the heap that hold a value
RecursionLimit == 5      \* interpreter frames available to the discovery
MaxCalls == 3            \* requests to /execute in one run
MaxItems == 32           \* items of the longest finite iterable

\* ------------------------------------------------------- program constants
max_workers == 10
EXECUTION_TIMEOUT_SECONDS == 10
SERIALIZATION_LIMIT == 30

\* ------------------------------------------------------------- identifiers
list_items == <<"l","i","s","t","_","i","t","e","m","s">>
delete_item == <<"d","e","l","e","t","e","_","i","t","e","m">>
reset_private == <<"_","r","e","s","e","t">>
sub == <<"s","u","b">>
other == <<"o","t","h","e","r">>
gh == <<"g","h">>
my_gh == <<"m","y","_","_","g","h">>
badalias == <<"b","a","d","a","l","i","a","s">>
op == <<"o","p">>
cp_dotted == <<"a",".","b","_","C">>
cp_under == <<"a","_","b",".","C">>

SEP == <<"_","_">>

\* ------------------------------------------------------------------ heap
\* Values a member lookup can give: None (getattr's default), a primitive
\* (no __dict__, no bound methods), or an object of the heap.
None == 0
Prim == -1
Objs == 1..NumObjects
Vals == {None, Prim} \cup Objs

\* Bound methods every client object carries (inspect.ismethod), and the
\* attribute names that may hold a sub-client.
ClassMethods == {list_items, delete_item, reset_private}
AttrNames == {sub, other}

\* inspect.getmembers returns members sorted by name.
MethodOrder == <<reset_private, delete_item, list_items>>
AttrOrder == <<other, sub>>

ClassPaths == {cp_dotted, cp_under}

\* _instantiate_class: one instance per class path.
InstanceOf(class_path) == IF class_path = cp_dotted THEN 1 ELSE 2

VARIABLES
    attrs,                \* attrs[o][n]: value of attribute n of object o
    truthy,               \* truthy[o]: bool(o)
    config,               \* state["config"]["sdks"], a sequence of SDK configs
    initialized_clients,  \* state["initialized_clients"]: class path -> Vals
    alias_map,            \* state["alias_map"]: alias -> class path
    tool_schemas,         \* state["tool_schemas"]
    pc,                   \* position of the startup sequence
    all_tools,            \* generate_tool_schemas: all_tools
    cursor,               \* generate_tool_schemas: index of the next exposed class
    stack,                \* frames of _discover_tools_recursive, top last
    handler,              \* the /execute request the event loop is in
    future,               \* the Future that request waits on
    response,             \* the HTTP response of that request
    queue,                \* work queue of the ThreadPoolExecutor
    running,              \* tasks held by worker threads
    ncalls,               \* requests accepted so far
    invoked,              \* invoked[c]: times the operation of call c was called
    timeouts              \* requests answered with the timeout error so far

startup_vars == <<initialized_clients, alias_map, tool_schemas, pc, all_tools, cursor, stack>>
serve_vars == <<handler, future, response, queue, running, ncalls, invoked, timeouts>>
vars == <<attrs, truthy, config, startup_vars, serve_vars>>

\* ------------------------------------------------------------- strings
StartsWithUnderscore(name) == Len(name) > 0 /\ name[1] = "_"

\* class_path.replace('.', '_')
Mangle(class_path) ==
    [i \in 1..Len(class_path) |-> IF class_path[i] = "." THEN "_" ELSE class_path[i]]

\* f"{name_prefix}__{name}"
Join(name_prefix, name) == name_prefix \o SEP \o name

\* str.split('__'): leftmost, non-overlapping occurrences of the separator.
RECURSIVE SplitFrom(_, _, _, _)
SplitFrom(s, i, cur, acc) ==
    IF i > Len(s) THEN Append(acc, cur)
    ELSE IF i < Len(s) /\ s[i] = "_" /\ s[i+1] = "_"
         THEN SplitFrom(s, i + 2, <<>>, Append(acc, cur))
         ELSE SplitFrom(s, i + 1, Append(cur, s[i]), acc)

Split(s) == SplitFrom(s, 1, <<>>, <<>>)

\* ------------------------------------------------------------- members
\* A bound method fetched with getattr
Method == -2

\* bool(v) of a looked-up value
Truthy(v) == IF v = None THEN FALSE ELSE IF v \in {Prim, Method} THEN TRUE ELSE truthy[v]

\* inspect.getmembers(current_object, inspect.ismethod), names only
MethodsOf(v) == IF v \in Objs THEN ClassMethods ELSE {}

\* getattr(current_object, name, None) when name is not a method
AttrOf(v, name) == IF v \in Objs /\ name \in AttrNames THEN attrs[v][name] ELSE None

\* hasattr(member, '__dict__') and not routine / class / module
IsSubClient(v) == v \in Objs

\* getattr(current_object, name, None)
GetAttr(v, name) ==
    IF v \in Objs /\ name \in ClassMethods THEN Method ELSE AttrOf(v, name)

\* ------------------------------------------------------------- configs
\* The include_methods key of a node: absent, null, or a list of names.
IncludeAbsent == [kind |-> "absent", names |-> {}]
IncludeNone == [kind |-> "none", names |-> {}]
IncludeList(S) == [kind |-> "list", names |-> S]

\* The {} that the auto path passes down.
EmptyConfig ==
    [name |-> <<>>, include_methods |-> IncludeAbsent,
     has_groups |-> FALSE, operations_groups |-> <<>>]

GroupNames == {sub, other}

\* Group configs that are in auto mode themselves.
LeafGroupConfigs ==
    {[name |-> n, include_methods |-> im, has_groups |-> FALSE, operations_groups |-> <<>>] :
        n \in GroupNames, im \in {IncludeAbsent, IncludeList({list_items})}}

\* Group configs in guided mode, with one declared group below them.
MidGroupConfigs ==
    {[name |-> sub, include_methods |-> im, has_groups |-> TRUE, operations_groups |-> <<g>>] :
        im \in {IncludeAbsent, IncludeNone, IncludeList({list_items})},
        g \in {l \in LeafGroupConfigs : l.name = sub}}

\* One entry of classes_to_expose: a bare class path (is_dict = FALSE) or a
\* mapping with class_path and the optional keys.
StringItem(class_path) ==
    [is_dict |-> FALSE, class_path |-> class_path, has_alias |-> FALSE, alias |-> <<>>,
     config |-> EmptyConfig]

DictItem(class_path, has_alias, alias, node) ==
    [is_dict |-> TRUE, class_path |-> class_path, has_alias |-> has_alias, alias |-> alias,
     config |-> node]

SdkConfig(enabled, factory, items) ==
    [enabled |-> enabled, factory |-> factory, classes_to_expose |-> items]

\* Configurations that vary the discovery tree of one exposed class: auto
\* mode, or guided mode with no group, one group, or the same group twice.
RootNodeConfigs ==
    {[name |-> <<>>, include_methods |-> im, has_groups |-> FALSE, operations_groups |-> <<>>] :
        im \in {IncludeAbsent, IncludeNone, IncludeList({list_items})}}
    \cup
    {[name |-> <<>>, include_methods |-> im, has_groups |-> TRUE, operations_groups |-> gs] :
        im \in {IncludeAbsent, IncludeNone, IncludeList({list_items})},
        gs \in {<<>>} \cup {<<g>> : g \in LeafGroupConfigs \cup MidGroupConfigs}
               \cup {<<g, g>> : g \in {l \in LeafGroupConfigs : l.name = sub}}}

NodeFamily ==
    {<<SdkConfig(TRUE, "ok", <<DictItem(cp_dotted, FALSE, <<>>, n)>>)>> : n \in RootNodeConfigs}

\* Configurations that vary the exposed classes, their aliases and their SDKs.
SimpleItems ==
    {StringItem(c) : c \in ClassPaths} \cup
    {DictItem(c, TRUE, a, EmptyConfig) : c \in ClassPaths, a \in {gh, my_gh}}

CatalogFamily ==
    {<<SdkConfig(TRUE, f, <<i>>)>> : f \in {"ok", "raises"}, i \in SimpleItems} \cup
    {<<SdkConfig(TRUE, "ok", <<i, j>>)>> : i \in SimpleItems, j \in SimpleItems} \cup
    {<<SdkConfig(TRUE, "ok", <<i>>), SdkConfig(e, "ok", <<j>>)>> :
        e \in BOOLEAN, i \in {StringItem(cp_dotted)}, j \in SimpleItems}

\* Deployments the requests are run against.
ServeNodes ==
    <<EmptyConfig,
     [name |-> <<>>, include_methods |-> IncludeList({list_items}), has_groups |-> TRUE,
      operations_groups |->
        <<[name |-> sub, include_methods |-> IncludeNone, has_groups |-> FALSE,
           operations_groups |-> <<>>],
          [name |-> other, include_methods |-> IncludeAbsent, has_groups |-> FALSE,
           operations_groups |-> <<>>]>>]>>

ServeFamily ==
    {<<SdkConfig(TRUE, "ok", <<DictItem(cp_dotted, TRUE, gh, ServeNodes[k])>>),
       SdkConfig(TRUE, IF k = 1 THEN "ok" ELSE "raises", <<StringItem(cp_under)>>)>> :
        k \in DOMAIN ServeNodes}

\* The deployment whose worker pool is filled: one class, alias gh, auto mode.
PoolFamily == {<<SdkConfig(TRUE, "ok", <<DictItem(cp_dotted, TRUE, gh, EmptyConfig)>>)>>}

\* ------------------------------------------------------------- heaps
RefCount(a) == Cardinality({p \in Objs \X AttrNames : a[p[1]][p[2]] # None})

Heaps == {a \in [Objs -> [AttrNames -> Vals]] : RefCount(a) <= MaxRefs}

\* ------------------------------------------------ initialize_sdk_clients
\* The class paths an SDK config exposes, in order.
ClassPathOf(item) == item.class_path

\* alias_map after the entries of one classes_to_expose list
RECURSIVE AliasEntries(_, _, _)
AliasEntries(items, i, m) ==
    IF i > Len(items) THEN m
    ELSE LET cfg == items[i]
             key == IF cfg.is_dict /\ cfg.has_alias THEN cfg.alias
                    ELSE Mangle(cfg.class_path)
         IN  IF cfg.class_path = <<>> THEN AliasEntries(items, i + 1, m)
             ELSE AliasEntries(items, i + 1,
                    [k \in DOMAIN m \cup {key} |->
                        IF k = key THEN cfg.class_path ELSE m[k]])

\* clients = factory_func(classes_to_expose=class_paths, ...)
FactoryClients(sdk) ==
    IF sdk.factory = "ok"
    THEN {ClassPathOf(sdk.classes_to_expose[i]) : i \in 1..Len(sdk.classes_to_expose)}
         \ {<<>>}
    ELSE {}

RECURSIVE InitializeFrom(_, _, _, _)
InitializeFrom(sdks, i, clients, aliases) ==
    IF i > Len(sdks) THEN [initialized_clients |-> clients, alias_map |-> aliases]
    ELSE LET sdk == sdks[i] IN
         IF ~sdk.enabled \/ sdk.factory = "no_path"
         THEN InitializeFrom(sdks, i + 1, clients, aliases)
         ELSE LET new == FactoryClients(sdk) IN
              InitializeFrom(sdks, i + 1,
                  [c \in DOMAIN clients \cup new |->
                      IF c \in new THEN InstanceOf(c) ELSE clients[c]],
                  AliasEntries(sdk.classes_to_expose, 1, aliases))

EmptyMap == [k \in {} |-> None]

initialize_sdk_clients ==
    /\ pc = "initialize_sdk_clients"
    /\ LET r == InitializeFrom(config, 1, EmptyMap, EmptyMap) IN
         /\ initialized_clients' = r.initialized_clients
         /\ alias_map' = r.alias_map
    /\ pc' = "generate_tool_schemas"
    /\ UNCHANGED <<serve_vars, attrs, truthy, config, tool_schemas, all_tools, cursor, stack>>

\* ------------------------------------------------ _discover_tools_recursive
\* Variant: the guided path reads include_methods with config.get, as the
\* auto path does, so an absent key keeps every public method.
KeptMethods_AbsentKeepsAll(current_object, node) ==
    {name \in MethodsOf(current_object) :
        /\ ~StartsWithUnderscore(name)
        /\ (node.include_methods.kind # "list" \/ name \in node.include_methods.names)}

\* Variant: the name is not looked up in include_methods.
KeptMethods_NoFilter(current_object, node) ==
    IF node.has_groups /\ node.include_methods.kind = "absent" THEN {}
    ELSE {name \in MethodsOf(current_object) : ~StartsWithUnderscore(name)}

\* The methods of current_object that get a schema at a node with this config.
KeptMethods(current_object, node) ==
    LET include_methods == node.include_methods
        eligible == {name \in MethodsOf(current_object) :
                        /\ ~StartsWithUnderscore(name)
                        /\ (include_methods.kind # "list" \/ name \in include_methods.names)}
    IN  IF node.has_groups /\ include_methods.kind = "absent" THEN {} ELSE eligible

\* One Tool Schema record: its name, and where it was derived from (the
\* object, the method and the config node; not part of the JSON).
ToolSchema(tool_name, current_object, name, node) ==
    [name |-> tool_name, obj |-> current_object, method |-> name, node |-> node]

\* The schemas a node appends for its own methods, in getmembers order.
OwnTools(current_object, node, name_prefix) ==
    LET names == SelectSeq(MethodOrder, LAMBDA n : n \in KeptMethods(current_object, node))
    IN  [i \in 1..Len(names) |->
            ToolSchema(Join(name_prefix, names[i]), current_object, names[i], node)]

\* The members the auto path recurses into, in getmembers order.
AutoMembers(current_object) ==
    SelectSeq(AttrOrder, LAMBDA n :
        ~StartsWithUnderscore(n) /\ IsSubClient(AttrOf(current_object, n)))

Frame(current_object, node, name_prefix) ==
    [obj |-> current_object, config |-> node, name_prefix |-> name_prefix, next |-> 1]

Top == stack[Len(stack)]

\* The loop the top frame is in has another element.
HasNextChild ==
    /\ stack # <<>>
    /\ Top.next <= (IF Top.config.has_groups THEN Len(Top.config.operations_groups)
                    ELSE Len(AutoMembers(Top.obj)))

\* The object and config of the next recursive call, when there is one.
NextChild ==
    IF Top.config.has_groups
    THEN LET group_config == Top.config.operations_groups[Top.next]
             sub_object == GetAttr(Top.obj, group_config.name)
         IN  [enter |-> group_config.name # <<>> /\ Truthy(sub_object),
              obj |-> sub_object, config |-> group_config, name |-> group_config.name]
    ELSE LET name == AutoMembers(Top.obj)[Top.next]
         IN  [enter |-> TRUE, obj |-> AttrOf(Top.obj, name), config |-> EmptyConfig,
              name |-> name]

Advance == [stack EXCEPT ![Len(stack)].next = @ + 1]

\* A recursive call: the callee appends the schemas of its own methods.
Recurse ==
    /\ pc = "generate_tool_schemas" /\ HasNextChild
    /\ NextChild.enter
    /\ Len(stack) < RecursionLimit
    /\ LET c == NextChild
           new_prefix == Join(Top.name_prefix, c.name)
       IN  /\ stack' = Append(Advance, Frame(c.obj, c.config, new_prefix))
           /\ all_tools' = all_tools \o OwnTools(c.obj, c.config, new_prefix)
    /\ UNCHANGED <<serve_vars, attrs, truthy, config, initialized_clients, alias_map, tool_schemas,
                   pc, cursor>>

\* A declared group without a name, or whose attribute is missing or falsy.
SkipGroup ==
    /\ pc = "generate_tool_schemas" /\ HasNextChild
    /\ ~NextChild.enter
    /\ stack' = Advance
    /\ UNCHANGED <<serve_vars, attrs, truthy, config, initialized_clients, alias_map, tool_schemas,
                   pc, all_tools, cursor>>

\* The recursion runs out of frames: RecursionError leaves the startup.
RecursionError ==
    /\ pc = "generate_tool_schemas" /\ HasNextChild
    /\ NextChild.enter
    /\ Len(stack) >= RecursionLimit
    /\ pc' = "RecursionError"
    /\ UNCHANGED <<serve_vars, attrs, truthy, config, initialized_clients, alias_map, tool_schemas,
                   all_tools, cursor, stack>>

\* return tools
Return ==
    /\ pc = "generate_tool_schemas"
    /\ stack # <<>> /\ ~HasNextChild
    /\ stack' = SubSeq(stack, 1, Len(stack) - 1)
    /\ UNCHANGED <<serve_vars, attrs, truthy, config, initialized_clients, alias_map, tool_schemas,
                   pc, all_tools, cursor>>

\* ------------------------------------------------ generate_tool_schemas
\* The classes_to_expose entries of the enabled SDKs, in order.
RECURSIVE ExposedItems(_, _)
ExposedItems(sdks, i) ==
    IF i > Len(sdks) THEN <<>>
    ELSE (IF sdks[i].enabled THEN sdks[i].classes_to_expose ELSE <<>>)
         \o ExposedItems(sdks, i + 1)

\* initialized_clients.get(class_path_str)
ClientGet(clients, class_path_str) ==
    IF class_path_str \in DOMAIN clients THEN clients[class_path_str] ELSE None

\* class_config.get("alias", class_path_str.replace('.', '_'))
NamePrefix(item) ==
    IF item.is_dict /\ item.has_alias THEN item.alias ELSE Mangle(item.class_path)

\* discover_tools for the next exposed class
discover_tools ==
    /\ pc = "generate_tool_schemas" /\ stack = <<>>
    /\ cursor <= Len(ExposedItems(config, 1))
    /\ LET item == ExposedItems(config, 1)[cursor]
           client_instance == ClientGet(initialized_clients, item.class_path)
       IN  /\ item.class_path # <<>>
           /\ Truthy(client_instance)
           /\ stack' = <<Frame(client_instance, item.config, NamePrefix(item))>>
           /\ all_tools' = all_tools \o OwnTools(client_instance, item.config, NamePrefix(item))
    /\ cursor' = cursor + 1
    /\ UNCHANGED <<serve_vars, attrs, truthy, config, initialized_clients, alias_map, tool_schemas, pc>>

\* an entry without class path or without (truthy) client is passed over
SkipClass ==
    /\ pc = "generate_tool_schemas" /\ stack = <<>>
    /\ cursor <= Len(ExposedItems(config, 1))
    /\ LET item == ExposedItems(config, 1)[cursor]
       IN  item.class_path = <<>>
           \/ ~Truthy(ClientGet(initialized_clients, item.class_path))
    /\ cursor' = cursor + 1
    /\ UNCHANGED <<serve_vars, attrs, truthy, config, initialized_clients, alias_map, tool_schemas,
                   pc, all_tools, stack>>

\* state["tool_schemas"] = all_tools
generate_tool_schemas ==
    /\ pc = "generate_tool_schemas" /\ stack = <<>>
    /\ cursor > Len(ExposedItems(config, 1))
    /\ tool_schemas' = all_tools
    /\ pc' = "serving"
    /\ UNCHANGED <<serve_vars, attrs, truthy, config, initialized_clients, alias_map,
                   all_tools, cursor, stack>>

\* ------------------------------------------------ execute_tool: resolution
\* ValueError messages, as the pieces the f-strings join.
NoClientForAlias(alias) == <<"No client found for alias '">> \o alias \o <<"'.">>
InvalidToolName(tool_name, e) ==
    <<"Invalid tool_name format or alias: ">> \o tool_name \o <<" (">> \o e \o <<")">>
ClientNotFound(class_path_str) ==
    <<"Client for '">> \o class_path_str \o <<"' not found.">>
NestedObjectNotFound(part, tool_name) ==
    <<"Nested object '">> \o part \o <<"' not found in tool path '">> \o tool_name \o <<"'.">>
MethodNotFound(method_name) ==
    <<"Method '">> \o method_name \o <<"' not found on target object.">>

ValueError(message) == [status |-> "ValueError", message |-> message]

\* for part in object_path: current_object = getattr(current_object, part, None)
RECURSIVE Walk(_, _, _, _)
Walk(current_object, object_path, i, tool_name) ==
    IF i > Len(object_path) THEN [status |-> "ok", obj |-> current_object]
    ELSE LET nxt == GetAttr(current_object, object_path[i]) IN
         IF ~Truthy(nxt) THEN ValueError(NestedObjectNotFound(object_path[i], tool_name))
         ELSE Walk(nxt, object_path, i + 1, tool_name)

\* The part of execute_tool before the submit: the member the name resolves
\* to, or the ValueError raised.
Resolve(tool_name, clients, aliases) ==
    LET parts == Split(tool_name)
        alias == parts[1]
        object_path == SubSeq(parts, 2, Len(parts) - 1)
        method_name == parts[Len(parts)]
    IN  IF alias \notin DOMAIN aliases \/ aliases[alias] = <<>>
        THEN ValueError(InvalidToolName(tool_name, NoClientForAlias(alias)))
        ELSE LET class_path_str == aliases[alias]
                 root == ClientGet(clients, class_path_str)
             IN  IF ~Truthy(root) THEN ValueError(ClientNotFound(class_path_str))
                 ELSE LET w == Walk(root, object_path, 1, tool_name) IN
                      IF w.status # "ok" THEN w
                      ELSE LET method_to_call == GetAttr(w.obj, method_name) IN
                           IF ~Truthy(method_to_call)
                           THEN ValueError(MethodNotFound(method_name))
                           ELSE [status |-> "resolved", obj |-> w.obj,
                                 member |-> method_name, value |-> method_to_call]

\* ------------------------------------------------ serialize_result
\* What an operation can return: an iterable that is no list, dict or str and
\* yields the items 1..n (or 1, 2, ... without end), a list of the items
\* 1..n, or a single value of the named kind.
Iterable(n, endless) == [kind |-> "iterable", n |-> n, endless |-> endless]
ListOf(n) == [kind |-> "list", n |-> n, endless |-> FALSE]
Single(kind) == [kind |-> kind, n |-> 0, endless |-> FALSE]

RawResults ==
    {Iterable(n, FALSE) : n \in 0..MaxItems} \cup {Iterable(0, TRUE)}
    \cup {ListOf(n) : n \in {0, MaxItems}}
    \cup {Single(k) : k \in {"dict", "str", "int", "none", "object", "to_dict"}}

Min(a, b) == IF a < b THEN a ELSE b

\* list(islice(result, k)): the items pulled from the iterable
Islice(result, k) ==
    LET m == IF result.endless THEN k ELSE Min(result.n, k)
    IN  [i \in 1..m |-> i]

\* serialize_result of a value that is not a list of items
SerializeSingle(kind) ==
    [kind |-> IF kind = "to_dict" THEN "dict"
              ELSE IF kind = "object" THEN "str"
              ELSE kind,
     items |-> <<>>]

\* serialize_result of a list of integers
SerializeList(items) == [kind |-> "list", items |-> items]

\* Variant: the length is compared with >= instead of >.
ExecuteAndSerialize_OffByOne(result) ==
    IF result.kind = "iterable"
    THEN LET limited_result == Islice(result, SERIALIZATION_LIMIT + 1)
             truncated == Len(limited_result) >= SERIALIZATION_LIMIT
             final_result_list == IF truncated
                                  THEN SubSeq(limited_result, 1, SERIALIZATION_LIMIT)
                                  ELSE limited_result
         IN  [result |-> SerializeList(final_result_list),
              _mcp_metadata |-> [truncated |-> truncated],
              pulled |-> Len(limited_result)]
    ELSE [result |-> IF result.kind = "list"
                     THEN SerializeList([i \in 1..result.n |-> i])
                     ELSE SerializeSingle(result.kind),
          _mcp_metadata |-> [truncated |-> FALSE],
          pulled |-> 0]

\* _execute_and_serialize after the call returned: the dictionary returned,
\* and the number of items taken from the iterable.
ExecuteAndSerialize(result) ==
    IF result.kind = "iterable"
    THEN LET limited_result == Islice(result, SERIALIZATION_LIMIT + 1)
             truncated == Len(limited_result) > SERIALIZATION_LIMIT
             final_result_list == IF truncated
                                  THEN SubSeq(limited_result, 1, SERIALIZATION_LIMIT)
                                  ELSE limited_result
         IN  [result |-> SerializeList(final_result_list),
              _mcp_metadata |-> [truncated |-> truncated],
              pulled |-> Len(limited_result)]
    ELSE [result |-> IF result.kind = "list"
                     THEN SerializeList([i \in 1..result.n |-> i])
                     ELSE SerializeSingle(result.kind),
          _mcp_metadata |-> [truncated |-> FALSE],
          pulled |-> 0]

\* ------------------------------------------------ execute_tool: invocation
\* Exceptions an operation can raise, by class.
OperationErrors == {"RuntimeError", "KeyError", "ValueError", "futures.TimeoutError"}

\* How long an operation runs, in seconds; Forever never returns.
Forever == EXECUTION_TIMEOUT_SECONDS + 2
Durations == {1, EXECUTION_TIMEOUT_SECONDS, EXECUTION_TIMEOUT_SECONDS + 1, Forever}

NotStarted == -1

\* The request being handled. duration and started_at record, for the awaited
\* operation, how long it runs and how long the request had waited when a
\* worker called it.
Idle == [phase |-> "idle", call |-> 0, tool_name |-> <<>>, waited |-> 0,
         duration |-> NotStarted, started_at |-> NotStarted]
NoFuture == [state |-> "none"]
NoResponse == [status |-> 0]

TimeoutMessage ==
    <<"Tool execution timed out on the server after ",
      ToString(EXECUTION_TIMEOUT_SECONDS), " seconds.">>

\* Variant: the endpoint has no except ValueError clause.
HttpError_NoValueErrorClause(cls, message) ==
    IF cls = "ToolTimeoutError"
    THEN [status |-> 408, detail |-> [message |-> message, traceback |-> FALSE]]
    ELSE [status |-> 500, detail |-> [message |-> message, traceback |-> TRUE]]

\* raise HTTPException(status_code=..., detail=...) of execute_tool_endpoint,
\* for an exception of class cls with message str(e)
HttpError(cls, message) ==
    IF cls = "ToolTimeoutError"
    THEN [status |-> 408, detail |-> [message |-> message, traceback |-> FALSE]]
    ELSE IF cls = "ValueError"
    THEN [status |-> 404, detail |-> [message |-> message, traceback |-> FALSE]]
    ELSE [status |-> 500, detail |-> [message |-> message, traceback |-> TRUE]]

\* The tool names requests carry: the catalog's, and names outside it.
RequestNames ==
    {tool_schemas[i].name : i \in DOMAIN tool_schemas}
    \cup {Join(badalias, op), badalias, Join(gh, sub), Join(gh, reset_private),
          Join(gh, delete_item), Join(Join(gh, other), list_items)}

\* Requests in one run: enough to fill the pool and go on where the pool is
\* the subject.
PoolCalls == max_workers + 2
CallLimit == IF config \in PoolFamily THEN PoolCalls ELSE MaxCalls
CallIds == 1..(IF PoolCalls > MaxCalls THEN PoolCalls ELSE MaxCalls)

CanAccept == pc = "serving" /\ handler.phase # "waiting" /\ ncalls < CallLimit

\* POST /execute whose tool name does not resolve: ValueError before the submit
ResolutionError ==
    /\ CanAccept
    /\ \E tool_name \in RequestNames :
        LET r == Resolve(tool_name, initialized_clients, alias_map) IN
            /\ r.status = "ValueError"
            /\ handler' = [phase |-> "responded", call |-> ncalls + 1,
                           tool_name |-> tool_name, waited |-> 0, duration |-> NotStarted,
                           started_at |-> NotStarted]
            /\ response' = HttpError("ValueError", r.message)
    /\ ncalls' = ncalls + 1
    /\ future' = NoFuture
    /\ UNCHANGED <<attrs, truthy, config, startup_vars, queue, running, invoked, timeouts>>

\* POST /execute whose tool name resolves: executor.submit, then future.result
Submit ==
    /\ CanAccept
    /\ \E tool_name \in RequestNames :
        LET r == Resolve(tool_name, initialized_clients, alias_map) IN
            /\ r.status = "resolved"
            /\ handler' = [phase |-> "waiting", call |-> ncalls + 1,
                           tool_name |-> tool_name, waited |-> 0, duration |-> NotStarted,
                           started_at |-> NotStarted]
            /\ queue' = Append(queue, [call |-> ncalls + 1, callable |-> r.value = Method])
    /\ ncalls' = ncalls + 1
    /\ future' = [state |-> "pending"]
    /\ response' = NoResponse
    /\ UNCHANGED <<attrs, truthy, config, startup_vars, running, invoked, timeouts>>

Awaited(call) == handler.phase = "waiting" /\ handler.call = call

\* Variant: the pool starts a thread for every work item.
CanStart_NoLimit == queue # <<>>

\* a worker thread of ThreadPoolExecutor(max_workers=10) is free
CanStart == queue # <<>> /\ Cardinality(running) < max_workers

\* Variant: the worker leaves the work item in the queue.
Start_KeepsQueued ==
    /\ queue # <<>> /\ Cardinality(running) < max_workers
    /\ \E d \in Durations :
        LET task == Head(queue)
            remaining == IF task.callable THEN d ELSE 0
        IN  /\ running' = running \cup
                    {[call |-> task.call, callable |-> task.callable, remaining |-> remaining]}
            /\ invoked' = [invoked EXCEPT ![task.call] = @ + (IF task.callable THEN 1 ELSE 0)]
            /\ handler' = IF handler.phase = "waiting" /\ handler.call = task.call
                          THEN [handler EXCEPT !.duration = remaining,
                                               !.started_at = handler.waited]
                          ELSE handler
    /\ queue' = queue
    /\ UNCHANGED <<attrs, truthy, config, startup_vars, future, response, ncalls, timeouts>>

\* A worker thread takes the head of the queue and calls method_to_call; a
\* member that is not callable raises TypeError at once.
Start ==
    /\ CanStart
    /\ \E d \in Durations :
        LET task == Head(queue)
            remaining == IF task.callable THEN d ELSE 0
        IN  /\ running' = running \cup
                    {[call |-> task.call, callable |-> task.callable, remaining |-> remaining]}
            /\ invoked' = [invoked EXCEPT ![task.call] = @ + (IF task.callable THEN 1 ELSE 0)]
            /\ handler' = IF Awaited(task.call)
                          THEN [handler EXCEPT !.duration = remaining,
                                               !.started_at = handler.waited]
                          ELSE handler
    /\ queue' = Tail(queue)
    /\ UNCHANGED <<attrs, truthy, config, startup_vars, future, response, ncalls, timeouts>>

\* One second passes: nothing that is due is left undone.
Tick ==
    /\ pc = "serving"
    /\ ~CanStart
    /\ \A t \in running : t.remaining # 0
    /\ \/ handler.phase = "waiting" /\ future.state = "pending"
          /\ handler.waited < EXECUTION_TIMEOUT_SECONDS
       \/ handler.phase # "waiting" /\ \E t \in running : t.remaining # Forever
    /\ running' = {[t EXCEPT !.remaining = IF @ = Forever THEN @ ELSE @ - 1] : t \in running}
    /\ handler' = IF handler.phase = "waiting"
                  THEN [handler EXCEPT !.waited = @ + 1]
                  ELSE handler
    /\ UNCHANGED <<attrs, truthy, config, startup_vars, future, response, queue, ncalls,
                   invoked, timeouts>>

\* The operation of the awaited call returns: the worker serialises the result
\* and sets it on the future.
OperationReturns ==
    \E t \in running :
        /\ t.remaining = 0 /\ t.callable /\ Awaited(t.call)
        /\ future.state = "pending"
        /\ \E raw \in RawResults :
            future' = [state |-> "result", raw |-> raw, value |-> ExecuteAndSerialize(raw)]
        /\ running' = running \ {t}
        /\ UNCHANGED <<attrs, truthy, config, startup_vars, handler, response, queue,
                       ncalls, invoked, timeouts>>

\* The operation of the awaited call raises (a member that is not callable
\* raises TypeError): the worker sets the exception on the future.
OperationRaises ==
    \E t \in running :
        /\ t.remaining = 0 /\ Awaited(t.call)
        /\ future.state = "pending"
        /\ \E cls \in (IF t.callable THEN OperationErrors ELSE {"TypeError"}) :
            future' = [state |-> "exception", cls |-> cls, message |-> <<"str(e) of ", cls>>,
                       by_operation |-> t.callable]
        /\ running' = running \ {t}
        /\ UNCHANGED <<attrs, truthy, config, startup_vars, handler, response, queue,
                       ncalls, invoked, timeouts>>

\* The operation of a call that was given up ends: its outcome goes to a
\* future nobody reads.
AbandonedEnds ==
    \E t \in running :
        /\ t.remaining = 0 /\ ~Awaited(t.call)
        /\ running' = running \ {t}
        /\ UNCHANGED <<attrs, truthy, config, startup_vars, handler, future, response,
                       queue, ncalls, invoked, timeouts>>

\* future.result(timeout=...) returns the dictionary: status 200
Respond ==
    /\ handler.phase = "waiting" /\ future.state = "result"
    /\ response' = [status |-> 200,
                    body |-> [result |-> future.value.result,
                              _mcp_metadata |-> future.value._mcp_metadata]]
    /\ handler' = [handler EXCEPT !.phase = "responded"]
    /\ UNCHANGED <<attrs, truthy, config, startup_vars, future, queue, running, ncalls,
                   invoked, timeouts>>

\* future.result re-raises the exception of the worker: except TimeoutError
\* turns it into ToolTimeoutError, except Exception re-raises it.
RespondError ==
    /\ handler.phase = "waiting" /\ future.state = "exception"
    /\ response' = IF future.cls = "futures.TimeoutError"
                   THEN HttpError("ToolTimeoutError", TimeoutMessage)
                   ELSE HttpError(future.cls, future.message)
    /\ timeouts' = timeouts + (IF future.cls = "futures.TimeoutError" THEN 1 ELSE 0)
    /\ handler' = [handler EXCEPT !.phase = "responded"]
    /\ UNCHANGED <<attrs, truthy, config, startup_vars, future, queue, running, ncalls,
                   invoked>>

\* Variant: the wait is given up without the timeout having elapsed.
ToolTimeout_Early ==
    /\ handler.phase = "waiting" /\ future.state = "pending"
    /\ handler.waited >= 1
    /\ response' = HttpError("ToolTimeoutError", TimeoutMessage)
    /\ timeouts' = timeouts + 1
    /\ handler' = [handler EXCEPT !.phase = "responded"]
    /\ UNCHANGED <<attrs, truthy, config, startup_vars, future, queue, running, ncalls,
                   invoked>>

\* future.result(timeout=...) gives up: ToolTimeoutError; the task stays
\* where it is, in the queue or with its worker.
ToolTimeout ==
    /\ handler.phase = "waiting" /\ future.state = "pending"
    /\ handler.waited >= EXECUTION_TIMEOUT_SECONDS
    /\ response' = HttpError("ToolTimeoutError", TimeoutMessage)
    /\ timeouts' = timeouts + 1
    /\ handler' = [handler EXCEPT !.phase = "responded"]
    /\ UNCHANGED <<attrs, truthy, config, startup_vars, future, queue, running, ncalls,
                   invoked>>

\* ------------------------------------------------------------- startup
\* The objects whose bool() is False: none, or the one created last.
Falsy == {{}, {NumObjects}}

\* The discovery tree varies over every heap, the exposed classes over the
\* heaps with at most one attribute.
Init ==
    /\ attrs \in Heaps
    /\ \E f \in Falsy : truthy = [o \in Objs |-> o \notin f]
    /\ \/ config \in NodeFamily
       \/ config \in CatalogFamily \cup ServeFamily /\ RefCount(attrs) <= 1
    /\ initialized_clients = EmptyMap
    /\ alias_map = EmptyMap
    /\ tool_schemas = <<>>
    /\ pc = "initialize_sdk_clients"
    /\ all_tools = <<>>
    /\ cursor = 1
    /\ stack = <<>>
    /\ handler = Idle
    /\ future = NoFuture
    /\ response = NoResponse
    /\ queue = <<>>
    /\ running = {}
    /\ ncalls = 0
    /\ invoked = [c \in CallIds |-> 0]
    /\ timeouts = 0

Next ==
    \/ initialize_sdk_clients
    \/ discover_tools
    \/ SkipClass
    \/ Recurse
    \/ SkipGroup
    \/ RecursionError
    \/ Return
    \/ generate_tool_schemas

Spec == Init /\ [][Next]_vars

\* ------------------------------------------------------------- serving
InitServe ==
    /\ Init
    /\ config \in ServeFamily
    /\ \A o \in Objs, n \in AttrNames : (o # 1 \/ n # sub) => attrs[o][n] = None
    /\ \A o \in Objs : truthy[o]

NextServe ==
    \/ Next
    \/ ResolutionError
    \/ Submit
    \/ Start
    \/ Tick
    \/ OperationReturns
    \/ OperationRaises
    \/ AbandonedEnds
    \/ Respond
    \/ RespondError
    \/ ToolTimeout

SpecServe == InitServe /\ [][NextServe]_vars

\* ---------------------------------------------------------- pool exhaustion
\* Requests for gh__list_items against a backend whose operation returns at
\* once, overruns the timeout by a second, or never returns.
PoolDurations == {1, EXECUTION_TIMEOUT_SECONDS + 1, Forever}

InitPool ==
    /\ Init
    /\ config \in PoolFamily
    /\ \A o \in Objs, n \in AttrNames : attrs[o][n] = None
    /\ \A o \in Objs : truthy[o]

PoolSubmit == Submit /\ handler'.tool_name = Join(gh, list_items)

PoolStart == Start /\ \A t \in running' \ running : t.remaining \in PoolDurations

PoolReturns == OperationReturns /\ future'.raw = Single("dict")

NextPool ==
    \/ initialize_sdk_clients
    \/ discover_tools
    \/ Return
    \/ generate_tool_schemas
    \/ PoolSubmit
    \/ PoolStart
    \/ Tick
    \/ PoolReturns
    \/ AbandonedEnds
    \/ Respond
    \/ ToolTimeout

SpecPool == InitPool /\ [][NextPool]_vars

\* ===================================================== discovery properties
Schemas == {tool_schemas[i] : i \in DOMAIN tool_schemas}

\* C1: every tool name of the catalog, resolved by execute_tool with the alias
\* map and the registry of the same startup, gives the bound method of the
\* object the schema was derived from.
C1_RoundTrip ==
    pc = "serving" =>
        \A t \in Schemas :
            LET r == Resolve(t.name, initialized_clients, alias_map) IN
                /\ r.status = "resolved"
                /\ r.obj = t.obj /\ r.member = t.method /\ r.value = Method

\* C6: no two records of the catalog have the same name.
C6_UniqueNames ==
    pc = "serving" =>
        \A i, j \in DOMAIN tool_schemas :
            i # j => tool_schemas[i].name # tool_schemas[j].name

\* C8: the discovery returns for every object graph and config; it never
\* ends in a RecursionError.
C8_Terminates == pc # "RecursionError"

\* A frame is at a guided node that declares sub-groups and whose config has
\* no include_methods key.
GuidedWithoutInclude(f) ==
    /\ f.config.has_groups /\ f.config.operations_groups # <<>>
    /\ f.config.include_methods.kind = "absent"

PublicMethods(v) == {m \in MethodsOf(v) : ~StartsWithUnderscore(m)}

\* C7 as claimed: a guided node without include_methods keeps every eligible
\* operation of its object.
C7_KeepsAllWhenAbsent ==
    \A k \in DOMAIN stack :
        GuidedWithoutInclude(stack[k]) =>
            \A m \in PublicMethods(stack[k].obj) :
                \E t \in {all_tools[i] : i \in DOMAIN all_tools} :
                    /\ t.name = Join(stack[k].name_prefix, m)
                    /\ t.obj = stack[k].obj /\ t.method = m

\* C7 amended: a guided node without include_methods gets no schema for its
\* own operations, and below a guided node the recursion is in a declared
\* sub-group, under that group's name.
C7_KeepsNoneWhenAbsent ==
    /\ \A t \in {all_tools[i] : i \in DOMAIN all_tools} \cup Schemas :
            ~(t.node.has_groups /\ t.node.include_methods.kind = "absent")
    /\ \A k \in DOMAIN stack :
            (k > 1 /\ stack[k-1].config.has_groups) =>
                /\ \E g \in DOMAIN stack[k-1].config.operations_groups :
                        stack[k-1].config.operations_groups[g] = stack[k].config
                /\ stack[k].obj = GetAttr(stack[k-1].obj, stack[k].config.name)
                /\ stack[k].name_prefix =
                        Join(stack[k-1].name_prefix, stack[k].config.name)

\* A guided node without include_methods, on an object with public methods and
\* an undeclared sub-client, has recursed into its declared group, which added
\* a schema.
C7_Witness ==
    /\ Len(stack) = 2
    /\ GuidedWithoutInclude(stack[1])
    /\ PublicMethods(stack[1].obj) # {}
    /\ stack[2].config.name = sub
    /\ IsSubClient(AttrOf(stack[1].obj, other))
    /\ all_tools # <<>>

\* C9: every schema derived at a node whose config has an include_methods list
\* is for a method named in that list.
C9_OnlyIncluded ==
    \A t \in {all_tools[i] : i \in DOMAIN all_tools} \cup Schemas :
        t.node.include_methods.kind = "list" => t.method \in t.node.include_methods.names

\* The catalog is complete and holds list_items of an object whose node lists
\* only list_items; delete_item of that object is public and reachable.
C9_Witness ==
    /\ pc = "serving"
    /\ \E t \in Schemas :
        /\ t.node.include_methods = IncludeList({list_items})
        /\ t.method = list_items
        /\ delete_item \in PublicMethods(t.obj)
        /\ Resolve(Join(SubSeq(t.name, 1, Len(t.name) - Len(list_items) - 2), delete_item),
                   initialized_clients, alias_map).status = "resolved"

\* ======================================================= serving properties
Answered == handler.phase = "responded"

\* C2: an operation that runs longer than the timeout makes its call fail with
\* the timeout error, status 408; whatever was given up before, an operation
\* that ends within the timeout is waited for, and the result it returns is
\* the 200 response.
C2_TimeoutThenService ==
    (Answered /\ handler.duration # NotStarted) =>
        /\ handler.duration > EXECUTION_TIMEOUT_SECONDS =>
                /\ response.status = 408
                /\ response.detail = [message |-> TimeoutMessage, traceback |-> FALSE]
                /\ future.state = "pending"
        /\ handler.started_at + handler.duration < EXECUTION_TIMEOUT_SECONDS =>
                future.state # "pending"
        /\ future.state = "result" =>
                /\ response.status = 200
                /\ response.body.result = future.value.result
                /\ response.body._mcp_metadata = future.value._mcp_metadata

\* An earlier call timed out and its operation still holds a worker; the call
\* after it was answered 200.
C2_Witness ==
    /\ Answered /\ response.status = 200
    /\ timeouts >= 1
    /\ \E t \in running : t.call < handler.call /\ t.remaining = Forever

\* C3: an iterable of n items gives the first min(n, 30) items in order,
\* truncated exactly when n > 30, and at most 31 items are pulled from it.
C3_Truncation ==
    (response.status = 200 /\ future.state = "result" /\ future.raw.kind = "iterable") =>
        LET raw == future.raw
            kept == IF raw.endless \/ raw.n > 30 THEN 30 ELSE raw.n
        IN  /\ response.body.result.kind = "list"
            /\ response.body.result.items = [i \in 1..kept |-> i]
            /\ response.body._mcp_metadata.truncated = (raw.endless \/ raw.n > 30)
            /\ future.value.pulled <= 31
            /\ ~raw.endless => future.value.pulled <= raw.n

\* An iterable of 31 items was answered with 30 items, truncated.
C3_Witness ==
    /\ response.status = 200 /\ future.state = "result"
    /\ future.raw = Iterable(31, FALSE)
    /\ Len(response.body.result.items) = 30
    /\ response.body._mcp_metadata.truncated

\* C4: an exception raised by the operation is answered with status 500 and a
\* detail of error_message and traceback that carries the original message.
C4_OperationFailed ==
    (Answered /\ future.state = "exception" /\ future.by_operation) =>
        /\ response.status = 500
        /\ response.detail = [message |-> future.message, traceback |-> TRUE]

\* C5: the operation of a call is called at most once.
C5_AtMostOnce == \A c \in 1..MaxCalls : invoked[c] <= 1

\* A call timed out, its operation is still running unattended, and the
\* operation of a later call has been called as well.
C5_Witness ==
    /\ timeouts >= 1
    /\ \E t \in running :
        /\ t.call < handler.call /\ invoked[t.call] = 1
        /\ invoked[handler.call] = 1

\* The part of a tool name before the first separator.
FirstSep(s) ==
    LET at == {i \in 1..(Len(s) - 1) : s[i] = "_" /\ s[i+1] = "_"}
    IN  IF at = {} THEN Len(s) + 1 ELSE CHOOSE i \in at : \A j \in at : i <= j

BeforeFirstSep(s) == SubSeq(s, 1, FirstSep(s) - 1)

\* The message says that no client was found for this alias.
NamesAlias(message, alias) ==
    \E i \in DOMAIN message :
        /\ message[i] = "No client found for alias '"
        /\ i + Len(alias) + 1 <= Len(message)
        /\ SubSeq(message, i + 1, i + Len(alias)) = alias
        /\ message[i + Len(alias) + 1] = "'."

\* C10: a tool name whose prefix is not in the alias map is answered 404 with
\* a message that names the prefix.
C10_UnknownAlias ==
    (Answered /\ BeforeFirstSep(handler.tool_name) \notin DOMAIN alias_map) =>
        /\ response.status = 404
        /\ ~response.detail.traceback
        /\ NamesAlias(response.detail.message, BeforeFirstSep(handler.tool_name))

\* badalias__op was answered while the alias map has aliases, but not badalias.
C10_Witness ==
    /\ Answered /\ handler.tool_name = Join(badalias, op)
    /\ alias_map # EmptyMap /\ badalias \notin DOMAIN alias_map
    /\ response.status = 404

\* C11: a tool name whose alias, client, group segment or operation is missing,
\* or whose member is not callable, is answered 404 with nothing submitted to
\* the pool; every work item of the pool is a callable operation.
C11_FailFast ==
    /\ \A i \in DOMAIN queue : queue[i].callable
    /\ \A t \in running : t.callable
    /\ Answered =>
        LET r == Resolve(handler.tool_name, initialized_clients, alias_map) IN
            (r.status = "ValueError" \/ r.value # Method) =>
                /\ response.status = 404
                /\ future = NoFuture
                /\ invoked[handler.call] = 0

\* The operation of call c holds a worker.
Holds(c, r) == \E t \in r : t.call = c

\* All workers are held by operations of calls before c that never return.
PoolExhaustedBefore(c) ==
    Cardinality({t \in running : t.call < c /\ t.remaining = Forever}) >= max_workers

\* C12: an operation holds its worker until it has returned by itself, also
\* after its call failed with the timeout error; when the operation of a call
\* that is no longer waited for ends, nothing is delivered to any caller; a
\* call made while every worker is held by an operation that never returns is
\* answered with the timeout error and its operation is never called.
C12_Abandonment ==
    [][/\ \A t \in running : t.remaining # 0 => Holds(t.call, running')
       /\ \A t \in running :
            (~Awaited(t.call) /\ ~Holds(t.call, running')) =>
                future' = future /\ response' = response
       /\ (Answered /\ future # NoFuture /\ PoolExhaustedBefore(handler.call))' =>
            (/\ response.status = 408
             /\ response.detail.message = TimeoutMessage
             /\ invoked[handler.call] = 0
             /\ handler.started_at = NotStarted)']_vars

\* Ten calls timed out and their operations hold all ten workers; two more
\* calls were answered 408, their work items still queued and never called.
C12_Witness ==
    /\ Answered /\ response.status = 408
    /\ handler.call = max_workers + 2
    /\ PoolExhaustedBefore(max_workers + 1)
    /\ Len(queue) = 2
    /\ invoked[max_workers + 1] = 0 /\ invoked[handler.call] = 0
    /\ timeouts = handler.call

\* C13: the operation of a call is called only if the tool name of the call
\* is the name of a record of the catalog.
C13_OnlyCatalogued ==
    (handler.call # 0 /\ invoked[handler.call] > 0) =>
        handler.tool_name \in {t.name : t \in Schemas}

====
